---- MODULE Spec2Model ----
(***************************************************************************)
(* Duo-fy: the socket.io relay (server.js), the client socket service      *)
(* (socket.js) and the Room component's listeners (Room.jsx).              *)
(*                                                                         *)
(* Six specifications share  the definitions below:                        *)
(*   Spec       the relay driven by arbitrary requests of MaxConns         *)
(*              connections (any client, not only the React one);          *)
(*   SpecClient one Room component fed arbitrary relayed events;           *)
(*   SpecDuo    two React clients talking through the relay;               *)
(*   SpecLink   one Room over a transport that fails and reconnects;       *)
(*   SpecRequest  the createRoom / joinRoom promises of one client;        *)
(*   SpecResume two clients in a room over transports that fail.           *)
(***************************************************************************)
EXTENDS Integers, Sequences, FiniteSets, TLC

\* ---------------------------------------------------------------- bounds
MaxConns    == 3   \* connections the relay ever accepts (ids never reused)
NumRooms    == 2   \* caller-supplied room ids in play
MaxClock    == 2   \* Date.now() readings are 1..MaxClock
MaxProgress == 1   \* progressMs / positionMs readings are 0..MaxProgress
MaxTasks    == 2   \* listener calls of one client suspended at an await
MaxQueue    == 2   \* packets in flight to one client
MaxPresses  == 2   \* play/pause presses in a run of the two clients

\* ------------------------------------------------------- program constants
MAX_ROOM_SIZE == 2

\* ------------------------------------------------------------ value domains
Conns == 1..MaxConns

\* JS undefined/null in a numeric slot (timestamp, progressMs, positionMs).
Undefined == 0 - 1

\* JS truthiness of a numeric slot: undefined, null and 0 are falsy.
Truthy(n) == n # Undefined /\ n # 0

\* a ?? b
Coalesce(a, b) == IF a = Undefined THEN b ELSE a

AllNames == <<"AB23CD", "ab23cd", "XY34ZW", "QR56ST">>
RoomNames == {AllNames[i] : i \in 1..NumRooms}

\* Keys of io.sockets.adapter.rooms that a request can name.  socket.io also
\* keeps every socket in a room named by its own socket.id, a random string
\* the relay never sends to any client; requests here carry caller-supplied
\* room ids only, so those private rooms never change and are left out.
\* Beside the names callers type there is one more id, which only a second
\* call of generateRoomId by the same client produces.
RoomIds == RoomNames \cup {AllNames[NumRooms + 1]}

\* roomId values a request can carry: a room id, "" (missing or empty,
\* falsy) and a truthy value that is not a string.
NotAString == "<number>"
ReqRoomIds == RoomNames \cup {"", NotAString}

Clock    == 1..MaxClock
Progress == 0..MaxProgress

Null == "<null>"

\* ------------------------------------------------------------------- state
VARIABLES
    sock,         \* relay: connection -> "none" | "open" | "closed"
    rooms,        \* relay: io.sockets.adapter.rooms, room id -> set of connections
    currentRoom,  \* relay: the per-connection closure variable currentRoom
    out,          \* relay: events emitted by the latest handler call, per recipient
    ack,          \* relay: callback response of the latest handler call
    lastOp,       \* history: the latest handler call and its arguments
    appRoomId,    \* client: App's roomId state, the Room component's roomId prop
    connStatus,   \* client: Room's connStatus state
    syncPlaying,  \* client: Room's syncPlaying state
    partnerOnline,\* client: Room's partnerOnline state
    latency,      \* client: Room's latency state (display only)
    deviceId,     \* client: whether useSpotifyPlayer has a deviceId
    tasks,        \* client: async listener calls suspended at an await
    device,       \* history: the latest command sent to the playback device
    conn,         \* client: the relay connection of its socket (0: none)
    connected,    \* client: socket.connected
    loading,      \* client: App's loading state
    pending,      \* client: roomId of the createRoom/joinRoom promise awaited
    toRelay,      \* network: packets in flight to the relay, per connection
    toClient,     \* network: packets in flight to the client, per connection
    presses,      \* history: number of play/pause presses so far
    link,         \* client: the socket's Manager, "closed" | "open" | "retry" | "failed"
    attempts,     \* client: the Manager's backoff.attempts
    delay,        \* client: the delay of the reconnection timer set last
    tries,        \* history: reconnection attempts since the transport closed
    calls,        \* client 1: the createRoom / joinRoom calls of socketService so far
    sendBuffer,   \* client 1: packets its socket keeps until it is connected
    app,          \* client 1: App is "mounted", or has "left" (unmounted); history:
                  \* "left-pending" when a call was awaited as it unmounted
    used          \* history: the relay connections client 1's socket has had

relayVars == <<sock, rooms, currentRoom, out, ack, lastOp>>

roomVars == <<appRoomId, connStatus, syncPlaying, partnerOnline, latency,
              deviceId, tasks, device>>

duoVars == <<conn, connected, loading, pending, toRelay, toClient, presses>>

linkVars == <<link, attempts, delay, tries>>

svcVars == <<calls, sendBuffer, app, used>>

\* ------------------------------------------------------------ relay helpers
NoData == [roomId |-> "", timestamp |-> Undefined, progressMs |-> Undefined,
           positionMs |-> Undefined]

\* An emitted event: its name and payload as the code builds them, plus the
\* history fields from (emitting handler's connection) and sent (progressMs of
\* the request that caused it); no handler reads the history fields.
Event(type, data, c, p) == [type |-> type, data |-> data, from |-> c, sent |-> p]

NoAck == [called |-> FALSE, success |-> FALSE, error |-> "", roomId |-> ""]
Fail(msg) == [called |-> TRUE, success |-> FALSE, error |-> msg, roomId |-> ""]
Ok(roomId) == [called |-> TRUE, success |-> TRUE, error |-> "", roomId |-> roomId]

Silent == [d \in Conns |-> <<>>]

Op(op, c, roomId, event, hasCallback) ==
    [op |-> op, conn |-> c, roomId |-> roomId, event |-> event, cb |-> hasCallback]

\* io.sockets.adapter.rooms.get(roomId) as a set (absent key: empty).
Members(roomId) == IF roomId \in RoomIds THEN rooms[roomId] ELSE {}

getRoomSize(roomId) == Cardinality(Members(roomId))

\* socket.rooms
SocketRooms(c) == {r \in RoomIds : c \in rooms[r]}

\* socket.join(roomId) / socket.leave(roomId) on the in-memory adapter.
AdapterAdd(c, roomId) ==
    IF roomId \in RoomIds THEN [rooms EXCEPT ![roomId] = @ \cup {c}] ELSE rooms

AdapterDelMutant(c, roomId) == rooms

AdapterDel(c, roomId) ==
    IF roomId \in RoomIds THEN [rooms EXCEPT ![roomId] = @ \ {c}] ELSE rooms

\* socket.to(roomId).emit(ev): every member of roomId in adapter state rm
\* except the socket itself.
BroadcastExcept(rm, c, roomId, ev) ==
    [d \in Conns |->
        IF roomId \in RoomIds /\ d \in rm[roomId] /\ d # c THEN <<ev>> ELSE <<>>]

\* io.to(roomId).emit(ev): every member of roomId.
BroadcastAll(rm, roomId, ev) ==
    [d \in Conns |-> IF roomId \in RoomIds /\ d \in rm[roomId] THEN <<ev>> ELSE <<>>]

ValidRoomId(roomId) == roomId # "" /\ roomId # NotAString

\* ----------------------------------------------------------- relay handlers
RelayInit ==
    /\ sock = [c \in Conns |-> "none"]
    /\ rooms = [r \in RoomIds |-> {}]
    /\ currentRoom = [c \in Conns |-> Null]
    /\ out = Silent
    /\ ack = NoAck
    /\ lastOp = Op("init", 0, "", "", FALSE)

\* The relay hands out connection ids in order and never reuses one.
Fresh(c) == sock[c] = "none" /\ \A d \in Conns : d < c => sock[d] # "none"

\* io.on("connection"): a new socket in no caller-named room.
OnConnection(c) ==
    /\ sock[c] = "none"
    /\ sock' = [sock EXCEPT ![c] = "open"]
    /\ rooms' = rooms
    /\ currentRoom' = [currentRoom EXCEPT ![c] = Null]
    /\ out' = Silent
    /\ ack' = NoAck
    /\ lastOp' = Op("connection", c, "", "", FALSE)

RoomInUseMutant(size) == size > 1

RoomInUse(size) == size > 0

OnCreateRoom(c, roomId, hasCallback) ==
    /\ sock[c] = "open"
    /\ lastOp' = Op("create-room", c, roomId, "", hasCallback)
    /\ out' = Silent
    /\ sock' = sock
    /\ IF ~hasCallback
       THEN ack' = NoAck /\ UNCHANGED <<rooms, currentRoom>>
       ELSE IF ~ValidRoomId(roomId)
       THEN ack' = Fail("Invalid room ID.") /\ UNCHANGED <<rooms, currentRoom>>
       ELSE IF RoomInUse(getRoomSize(roomId))
       THEN ack' = Fail("Room ID already in use.") /\ UNCHANGED <<rooms, currentRoom>>
       ELSE /\ rooms' = AdapterAdd(c, roomId)
            /\ currentRoom' = [currentRoom EXCEPT ![c] = roomId]
            /\ ack' = Ok(roomId)

RoomNotFoundMutant(size) == size < 0

RoomNotFound(size) == size = 0

RoomIsFullMutant(size) == size > MAX_ROOM_SIZE

RoomIsFull(size) == size >= MAX_ROOM_SIZE

OnJoinRoom(c, roomId, hasCallback) ==
    /\ sock[c] = "open"
    /\ lastOp' = Op("join-room", c, roomId, "", hasCallback)
    /\ sock' = sock
    /\ IF ~hasCallback
       THEN ack' = NoAck /\ out' = Silent /\ UNCHANGED <<rooms, currentRoom>>
       ELSE IF ~ValidRoomId(roomId)
       THEN ack' = Fail("Invalid room ID.") /\ out' = Silent
            /\ UNCHANGED <<rooms, currentRoom>>
       ELSE IF RoomNotFound(getRoomSize(roomId))
       THEN ack' = Fail("Room not found.") /\ out' = Silent
            /\ UNCHANGED <<rooms, currentRoom>>
       ELSE IF RoomIsFull(getRoomSize(roomId))
       THEN ack' = Fail("Room is full.") /\ out' = Silent
            /\ UNCHANGED <<rooms, currentRoom>>
       ELSE /\ rooms' = AdapterAdd(c, roomId)
            /\ currentRoom' = [currentRoom EXCEPT ![c] = roomId]
            /\ out' = BroadcastExcept(rooms', c, roomId,
                                      Event("partner-joined", NoData, c, Undefined))
            /\ ack' = Ok(roomId)

OnLeaveRoom(c, roomId) ==
    /\ sock[c] = "open"
    /\ lastOp' = Op("leave-room", c, roomId, "", FALSE)
    /\ sock' = sock
    /\ ack' = NoAck
    /\ IF roomId = ""
       THEN out' = Silent /\ UNCHANGED <<rooms, currentRoom>>
       ELSE /\ rooms' = AdapterDel(c, roomId)
            /\ out' = BroadcastExcept(rooms', c, roomId,
                                      Event("partner-left", NoData, c, Undefined))
            /\ currentRoom' = [currentRoom EXCEPT ![c] = Null]

KnownEvents == {"play", "pause"}

\* What a control request may carry as event: the two known kinds, another
\* kind, and "" for a missing one.
ReqEvents == {"play", "pause", "seek", ""}

SenderInRoomMutant(c, roomId) == TRUE

SenderInRoom(c, roomId) == roomId \in SocketRooms(c)

RelayTargets(rm, c, roomId, ev) == BroadcastAll(rm, roomId, ev)

\* now is the relay's Date.now(), used when the request has no timestamp.
OnControl(c, event, roomId, timestamp, progressMs, now) ==
    /\ sock[c] = "open"
    /\ lastOp' = Op("control", c, roomId, event, FALSE)
    /\ ack' = NoAck
    /\ UNCHANGED <<sock, rooms, currentRoom>>
    /\ IF roomId = "" \/ event = ""
       THEN out' = Silent
       ELSE IF event \notin KnownEvents
       THEN out' = Silent
       ELSE IF ~SenderInRoom(c, roomId)
       THEN out' = Silent
       ELSE LET payload == [roomId |-> roomId,
                            timestamp |-> Coalesce(timestamp, now),
                            progressMs |-> Undefined,
                            positionMs |-> Undefined]
            IN  IF event = "play"
                THEN out' = RelayTargets(rooms, c, roomId,
                                         Event("sync-play", payload, c, progressMs))
                ELSE out' = RelayTargets(rooms, c, roomId,
                                         Event("sync-pause", payload, c, progressMs))

\* socket.io has already removed the socket from all its rooms when the
\* "disconnect" listeners run.  The socket's closure, currentRoom included,
\* is unreachable afterwards.
OnDisconnect(c) ==
    /\ sock[c] = "open"
    /\ lastOp' = Op("disconnect", c, "", "", FALSE)
    /\ sock' = [sock EXCEPT ![c] = "closed"]
    /\ rooms' = [r \in RoomIds |-> rooms[r] \ {c}]
    /\ ack' = NoAck
    /\ currentRoom' = [currentRoom EXCEPT ![c] = Null]
    /\ IF currentRoom[c] # Null
       THEN out' = BroadcastExcept(rooms', c, currentRoom[c],
                                   Event("partner-left", NoData, c, Undefined))
       ELSE out' = Silent

\* ------------------------------------------------------- Room.jsx (client)
\* The two participants' browsers.
Clients == {1, 2}

Max(a, b) == IF a >= b THEN a ELSE b

\* A command sent to the playback device (spotifySeek / spotifyPlay /
\* spotifyPause) with, as history, the listener that sent it and, for a seek,
\* the event's timestamp and position, the listener's Date.now() reading and
\* again: the target of the command just before it when that was the seek of
\* a sync-play with the same timestamp, position and reading.
Command(cmd, ms, via, data, receivedAt, again) ==
    [cmd |-> cmd, ms |-> ms, via |-> via, timestamp |-> data.timestamp,
     position |-> IF via = "sync-seek" THEN data.positionMs ELSE data.progressMs,
     at |-> receivedAt, again |-> again]

NoCommand == Command("none", Undefined, "", NoData, Undefined, Undefined)

\* History: the target of the latest command of client k if that was the seek
\* of a sync-play with this payload and reading.
SameAsLatest(k, data, receivedAt) ==
    IF /\ device[k].cmd = "seek"
       /\ device[k].via = "sync-play"
       /\ device[k].timestamp = data.timestamp
       /\ device[k].position = data.progressMs
       /\ device[k].at = receivedAt
    THEN device[k].ms
    ELSE Undefined

\* Room state that only drives presentation (toast, celebrating, reactions,
\* partnerName, partnerAvatar, partnerPlaying, showCodeCard, syncCount,
\* lastPlayRef, which only chooses between two toasts) is
\* not part of the model.
RoomMounted(k) == appRoomId[k] # Null

\* An async handler call of Room suspended at an await: where it waits and
\* the progressMs its closure captured (handlePlay / handlePause).
Task(pc, progressMs) == [pc |-> pc, progressMs |-> progressMs]

Without(seq, i) == SubSeq(seq, 1, i - 1) \o SubSeq(seq, i + 1, Len(seq))

\* if (data?.roomId && data.roomId !== roomId) return;
ForOtherRoom(k, data) == data.roomId # "" /\ data.roomId # appRoomId[k]

\* const lag = data?.timestamp ? receivedAt - data.timestamp : 0;
NoLagMutant(timestamp, receivedAt) == 0

DriftLag(timestamp, receivedAt) ==
    IF Truthy(timestamp) THEN receivedAt - timestamp ELSE 0

TargetMsMutant(position, lag) == Coalesce(position, 0) + lag

\* Math.max(0, (position ?? 0) + lag)
TargetMs(position, lag) == Max(0, Coalesce(position, 0) + lag)

\* A listener that adds the previous latency sample to the event's own lag.
SyncPlayTargetMutant(k, data, receivedAt) ==
    TargetMs(data.progressMs,
             DriftLag(data.timestamp, receivedAt) + Coalesce(latency[k], 0))

\* targetMs of the sync-play listener of client k.
SyncPlayTarget(k, data, receivedAt) ==
    TargetMs(data.progressMs, DriftLag(data.timestamp, receivedAt))

\* targetMs of the sync-seek listener.
SyncSeekTarget(data, receivedAt) ==
    TargetMs(data.positionMs, DriftLag(data.timestamp, receivedAt))

\* sync-play listener up to its first await: the state updates and, with a
\* device, the spotifySeek call.
OnSyncPlay(k, data, receivedAt) ==
    /\ RoomMounted(k)
    /\ UNCHANGED <<appRoomId, connStatus, partnerOnline, deviceId>>
    /\ IF ForOtherRoom(k, data)
       THEN UNCHANGED <<syncPlaying, latency, tasks, device>>
       ELSE LET lag == DriftLag(data.timestamp, receivedAt)
                targetMs == SyncPlayTarget(k, data, receivedAt)
            IN  /\ latency' = IF lag > 0 THEN [latency EXCEPT ![k] = lag] ELSE latency
                /\ syncPlaying' = [syncPlaying EXCEPT ![k] = TRUE]
                /\ IF deviceId[k]
                   THEN /\ Len(tasks[k]) < MaxTasks
                        /\ device' = [device EXCEPT ![k] =
                              Command("seek", targetMs, "sync-play", data, receivedAt,
                                      SameAsLatest(k, data, receivedAt))]
                        /\ tasks' = [tasks EXCEPT ![k] = Append(@, Task("seek", Undefined))]
                   ELSE UNCHANGED <<tasks, device>>

\* await spotifySeek(...).catch(() => {}) returns, whether the seek succeeded
\* or failed; the 80 ms settle timer starts.
SeekReturned(k, i) ==
    /\ i \in 1..Len(tasks[k])
    /\ tasks[k][i].pc = "seek"
    /\ tasks' = [tasks EXCEPT ![k][i] = Task("settle", Undefined)]
    /\ UNCHANGED <<appRoomId, connStatus, syncPlaying, partnerOnline, latency,
                   deviceId, device>>

SettleElapsedMutant(k, i) ==
    /\ i \in 1..Len(tasks[k])
    /\ tasks[k][i].pc \in {"seek", "settle"}
    /\ device' = [device EXCEPT ![k] =
          Command("play", Undefined, "sync-play", NoData, Undefined, Undefined)]
    /\ tasks' = [tasks EXCEPT ![k] = Without(@, i)]
    /\ UNCHANGED <<appRoomId, connStatus, syncPlaying, partnerOnline, latency,
                   deviceId>>

\* The settle timer fires: spotifyPlay is called; what follows its await
\* (toast, celebrate) changes no modelled state, so the call ends here.
SettleElapsed(k, i) ==
    /\ i \in 1..Len(tasks[k])
    /\ tasks[k][i].pc = "settle"
    /\ device' = [device EXCEPT ![k] =
          Command("play", Undefined, "sync-play", NoData, Undefined, Undefined)]
    /\ tasks' = [tasks EXCEPT ![k] = Without(@, i)]
    /\ UNCHANGED <<appRoomId, connStatus, syncPlaying, partnerOnline, latency,
                   deviceId>>

OnSyncPause(k, data) ==
    /\ RoomMounted(k)
    /\ UNCHANGED <<appRoomId, connStatus, partnerOnline, latency, deviceId, tasks>>
    /\ IF ForOtherRoom(k, data)
       THEN UNCHANGED <<syncPlaying, device>>
       ELSE /\ syncPlaying' = [syncPlaying EXCEPT ![k] = FALSE]
            /\ IF deviceId[k]
               THEN device' = [device EXCEPT ![k] =
                      Command("pause", Undefined, "sync-pause", NoData, Undefined,
                              Undefined)]
               ELSE UNCHANGED device

OnSyncSeek(k, data, receivedAt) ==
    /\ RoomMounted(k)
    /\ UNCHANGED <<appRoomId, connStatus, syncPlaying, partnerOnline, latency,
                   deviceId, tasks>>
    /\ IF ForOtherRoom(k, data)
       THEN UNCHANGED device
       ELSE IF deviceId[k]
            THEN device' = [device EXCEPT ![k] =
                   Command("seek", SyncSeekTarget(data, receivedAt),
                           "sync-seek", data, receivedAt, Undefined)]
            ELSE UNCHANGED device

OnPartnerJoined(k) ==
    /\ RoomMounted(k)
    /\ partnerOnline' = [partnerOnline EXCEPT ![k] = TRUE]
    /\ UNCHANGED <<appRoomId, connStatus, syncPlaying, latency, deviceId, tasks, device>>

OnPartnerLeft(k) ==
    /\ RoomMounted(k)
    /\ partnerOnline' = [partnerOnline EXCEPT ![k] = FALSE]
    /\ syncPlaying' = [syncPlaying EXCEPT ![k] = FALSE]
    /\ UNCHANGED <<appRoomId, connStatus, latency, deviceId,
                   tasks, device>>

\* socket "connect" listener of Room.
OnConnect(k) ==
    /\ RoomMounted(k)
    /\ connStatus' = [connStatus EXCEPT ![k] = "connected"]
    /\ UNCHANGED <<appRoomId, syncPlaying, partnerOnline, latency, deviceId, tasks, device>>

DisconnectReasons == {"io client disconnect", "transport close"}

\* socket "disconnect" listener of Room.
OnDisconnected(k, reason) ==
    /\ RoomMounted(k)
    /\ UNCHANGED <<appRoomId, partnerOnline, latency, deviceId,
                   tasks, device>>
    /\ IF reason # "io client disconnect"
       THEN /\ connStatus' = [connStatus EXCEPT ![k] = "disconnected"]
            /\ syncPlaying' = [syncPlaying EXCEPT ![k] = FALSE]
       ELSE UNCHANGED <<connStatus, syncPlaying>>

\* ------------------------------ SpecClient: one Room, arbitrary relayed events
\* The payload of a sync-play / sync-pause (position in progressMs) or of a
\* sync-seek (position in positionMs) as any relay or peer could send it.
PlayData ==
    [roomId : RoomNames \cup {""}, timestamp : Clock \cup {Undefined},
     progressMs : Progress \cup {Undefined}, positionMs : {Undefined}]

SeekData ==
    [roomId : RoomNames \cup {""}, timestamp : Clock \cup {Undefined},
     progressMs : {Undefined}, positionMs : Progress \cup {Undefined}]

\* Client 1 shows a Room (useState initial values, connStatus after the
\* effect's socketService.connected test); client 2 is idle.
ClientInit ==
    /\ appRoomId = [k \in Clients |-> IF k = 1 THEN AllNames[1] ELSE Null]
    /\ connStatus \in {[k \in Clients |-> IF k = 1 THEN st ELSE "connecting"] :
                          st \in {"connecting", "connected"}}
    /\ syncPlaying = [k \in Clients |-> FALSE]
    /\ partnerOnline = [k \in Clients |-> FALSE]
    /\ latency = [k \in Clients |-> Undefined]
    /\ deviceId \in {[k \in Clients |-> IF k = 1 THEN dv ELSE FALSE] :
                        dv \in BOOLEAN}
    /\ tasks = [k \in Clients |-> <<>>]
    /\ device = [k \in Clients |-> NoCommand]

\* No socket is connected and nothing is in flight.
Offline ==
    /\ conn = [k \in Clients |-> 0]
    /\ connected = [k \in Clients |-> FALSE]
    /\ loading = [k \in Clients |-> FALSE]
    /\ pending = [k \in Clients |-> Null]
    /\ toRelay = [c \in Conns |-> <<>>]
    /\ toClient = [c \in Conns |-> <<>>]
    /\ presses = 0
    /\ link = [k \in Clients |-> "closed"]
    /\ attempts = [k \in Clients |-> 0]
    /\ delay = [k \in Clients |-> Undefined]
    /\ tries = [k \in Clients |-> 0]
    /\ calls = <<>>
    /\ sendBuffer = <<>>
    /\ app = "mounted"
    /\ used = {}

InitClient == RelayInit /\ ClientInit /\ Offline

RecvSyncPlay ==
    /\ \E data \in PlayData, now \in Clock : OnSyncPlay(1, data, now)
    /\ UNCHANGED <<relayVars, duoVars, linkVars, svcVars>>

AwaitSeek ==
    /\ \E i \in 1..MaxTasks : SeekReturned(1, i)
    /\ UNCHANGED <<relayVars, duoVars, linkVars, svcVars>>

AwaitSettle ==
    /\ \E i \in 1..MaxTasks : SettleElapsed(1, i)
    /\ UNCHANGED <<relayVars, duoVars, linkVars, svcVars>>

RecvSyncPause ==
    /\ \E data \in PlayData : OnSyncPause(1, data)
    /\ UNCHANGED <<relayVars, duoVars, linkVars, svcVars>>

RecvSyncSeek ==
    /\ \E data \in SeekData, now \in Clock : OnSyncSeek(1, data, now)
    /\ UNCHANGED <<relayVars, duoVars, linkVars, svcVars>>

RecvPartnerJoined == OnPartnerJoined(1) /\ UNCHANGED <<relayVars, duoVars, linkVars, svcVars>>

RecvPartnerLeft == OnPartnerLeft(1) /\ UNCHANGED <<relayVars, duoVars, linkVars, svcVars>>

RecvConnect == OnConnect(1) /\ UNCHANGED <<relayVars, duoVars, linkVars, svcVars>>

RecvDisconnect ==
    /\ \E reason \in DisconnectReasons : OnDisconnected(1, reason)
    /\ UNCHANGED <<relayVars, duoVars, linkVars, svcVars>>

NextClient ==
    \/ RecvSyncPlay
    \/ AwaitSeek
    \/ AwaitSettle
    \/ RecvSyncPause
    \/ RecvSyncSeek
    \/ RecvPartnerJoined
    \/ RecvPartnerLeft
    \/ RecvConnect
    \/ RecvDisconnect

\* ------------------------------------------- Spec: relay, arbitrary clients
\* No client of the model is attached: the requests are arbitrary.
Detached ==
    /\ appRoomId = [k \in Clients |-> Null]
    /\ connStatus = [k \in Clients |-> "connecting"]
    /\ syncPlaying = [k \in Clients |-> FALSE]
    /\ partnerOnline = [k \in Clients |-> FALSE]
    /\ latency = [k \in Clients |-> Undefined]
    /\ deviceId = [k \in Clients |-> FALSE]
    /\ tasks = [k \in Clients |-> <<>>]
    /\ device = [k \in Clients |-> NoCommand]

Init == RelayInit /\ Detached /\ Offline

\* The relay reads its clock only when the request carries no timestamp.
RelayClock(t) == IF t = Undefined THEN Clock ELSE {1}

\* timestamp of a control request; the relay does not look at it when it
\* drops the request for its event or roomId.
ControlStamps(e, r) ==
    IF e \in KnownEvents /\ r \in RoomIds THEN Clock \cup {Undefined} ELSE {Undefined}

Connection == \E c \in Conns : Fresh(c) /\ OnConnection(c) /\ UNCHANGED <<roomVars, duoVars, linkVars, svcVars>>

CreateRoom ==
    \E c \in Conns, cb \in BOOLEAN, r \in ReqRoomIds :
        OnCreateRoom(c, r, cb) /\ UNCHANGED <<roomVars, duoVars, linkVars, svcVars>>

JoinRoom ==
    \E c \in Conns, cb \in BOOLEAN, r \in ReqRoomIds :
        OnJoinRoom(c, r, cb) /\ UNCHANGED <<roomVars, duoVars, linkVars, svcVars>>

LeaveRoom ==
    \E c \in Conns, r \in ReqRoomIds : OnLeaveRoom(c, r) /\ UNCHANGED <<roomVars, duoVars, linkVars, svcVars>>

\* The handler destructures event, roomId and timestamp only: a progressMs
\* in the request never reaches it, so the requests here carry none.
Control ==
    \E c \in Conns, e \in ReqEvents, r \in ReqRoomIds :
        \E t \in ControlStamps(e, r) :
            \E now \in RelayClock(t) :
                OnControl(c, e, r, t, Undefined, now) /\ UNCHANGED <<roomVars, duoVars, linkVars, svcVars>>

Disconnect == \E c \in Conns : OnDisconnect(c) /\ UNCHANGED <<roomVars, duoVars, linkVars, svcVars>>

Next ==
    \/ Connection
    \/ CreateRoom
    \/ JoinRoom
    \/ LeaveRoom
    \/ Control
    \/ Disconnect

vars == <<sock, rooms, currentRoom, out, ack, lastOp, appRoomId, connStatus,
          syncPlaying, partnerOnline, latency, deviceId, tasks,
          device, conn, connected, loading, pending, toRelay, toClient, presses,
          link, attempts, delay, tries, calls, sendBuffer, app, used>>

Spec == Init /\ [][Next]_vars

SpecClient == InitClient /\ [][NextClient]_vars

\* --------------------------------- SpecDuo: two React clients and the relay
\* A packet to the relay: socket.emit(kind, {roomId, event, timestamp,
\* progressMs}) or the DISCONNECT of socket.disconnect().
Request(kind, roomId, event, timestamp, progressMs) ==
    [kind |-> kind, roomId |-> roomId, event |-> event, timestamp |-> timestamp,
     progressMs |-> progressMs]

NoEvent == Event("", NoData, 0, Undefined)

\* A packet to a client: the CONNECT, the acknowledgement of its request, or
\* an event.
Packet(kind, a, ev) == [kind |-> kind, ack |-> a, ev |-> ev]

\* e.target.value.toUpperCase().replace(/[^A-Z0-9]/g, '') on a room code.
ToUpperCase(id) == IF id = "ab23cd" THEN "AB23CD" ELSE id

\* generateRoomId draws six characters from upper-case letters and digits.
GeneratedIds == {id \in RoomNames : ToUpperCase(id) = id}

Attached(c) == \E k \in Clients : conn[k] = c

Inbox(k) == IF conn[k] # 0 THEN toClient[conn[k]] ELSE <<>>

\* socket.emit on the client's socket (a socket without connection keeps
\* the packet in its send buffer, which SpecRequest follows).
Emit(queues, k, req) ==
    IF conn[k] # 0 THEN [queues EXCEPT ![conn[k]] = Append(@, req)] ELSE queues

\* A handler call of the relay sends at most one packet to each client, so
\* a client that is about to emit n requests waits until every inbox has
\* room for n more.
CanEmit(k, n) == \A d \in Conns : Len(toClient[d]) + n <= MaxQueue

\* No request is in flight.  The relay takes a request before the clients
\* move on: a request in flight commutes with every step of a client, so
\* every order in which the relay can take the requests is kept.
Quiet == \A c \in Conns : toRelay[c] = <<>>

\* Room's useState initial values and the first run of its socket effect.
Mount(k, id) ==
    /\ appRoomId' = [appRoomId EXCEPT ![k] = id]
    /\ connStatus' = [connStatus EXCEPT ![k] =
                         IF connected[k] THEN "connected" ELSE "connecting"]
    /\ syncPlaying' = [syncPlaying EXCEPT ![k] = FALSE]
    /\ partnerOnline' = [partnerOnline EXCEPT ![k] = FALSE]
    /\ latency' = [latency EXCEPT ![k] = Undefined]
    /\ tasks' = [tasks EXCEPT ![k] = <<>>]
    /\ device' = [device EXCEPT ![k] = NoCommand]
    /\ UNCHANGED deviceId

\* setRoomId(null): the Room and its state go away.
Unmount(k) ==
    /\ appRoomId' = [appRoomId EXCEPT ![k] = Null]
    /\ connStatus' = [connStatus EXCEPT ![k] = "connecting"]
    /\ syncPlaying' = [syncPlaying EXCEPT ![k] = FALSE]
    /\ partnerOnline' = [partnerOnline EXCEPT ![k] = FALSE]
    /\ latency' = [latency EXCEPT ![k] = Undefined]
    /\ tasks' = [tasks EXCEPT ![k] = <<>>]
    /\ device' = [device EXCEPT ![k] = NoCommand]
    /\ UNCHANGED deviceId

\* App.handleCreateRoom / handleJoinRoom up to the await: setLoading(true),
\* socketService.connect() when not connected, and the request.  The relay
\* accepts the connection and sends its CONNECT in the same step.
StartRequest(k, kind, id) ==
    /\ ~RoomMounted(k)
    /\ ~loading[k]
    /\ loading' = [loading EXCEPT ![k] = TRUE]
    /\ pending' = [pending EXCEPT ![k] = id]
    /\ UNCHANGED <<roomVars, connected, presses>>
    /\ CanEmit(k, 1)
    /\ IF connected[k]
       THEN /\ toRelay' = Emit(toRelay, k, Request(kind, id, "", Undefined, Undefined))
            /\ UNCHANGED <<relayVars, conn, toClient>>
       ELSE \E c \in Conns :
              /\ Fresh(c)
              /\ OnConnection(c)
              /\ conn' = [conn EXCEPT ![k] = c]
              /\ toRelay' = [toRelay EXCEPT ![c] =
                                <<Request(kind, id, "", Undefined, Undefined)>>]
              /\ toClient' = [toClient EXCEPT ![c] =
                                 <<Packet("connect", NoAck, NoEvent)>>]

HandleCreateRoom(k) == \E newId \in GeneratedIds : StartRequest(k, "create-room", newId)

\* The modal hands over the upper-cased room code.
HandleJoinRoom(k) ==
    \E typed \in RoomNames : StartRequest(k, "join-room", ToUpperCase(typed))

\* What a handler call on connection c sends to connection d: the events
\* emitted to d and, for c itself, the acknowledgement.
Replies(c, d) ==
    [i \in 1..Len(out'[d]) |-> Packet("event", NoAck, out'[d][i])]
    \o (IF d = c /\ ack'.called THEN <<Packet("ack", ack', NoEvent)>> ELSE <<>>)

\* The relay takes the next packet of connection c.
RelayHandle(c) ==
    /\ sock[c] = "open"
    /\ toRelay[c] # <<>>
    /\ LET req == Head(toRelay[c])
       IN  \/ req.kind = "create-room" /\ OnCreateRoom(c, req.roomId, TRUE)
           \/ req.kind = "join-room" /\ OnJoinRoom(c, req.roomId, TRUE)
           \/ req.kind = "leave-room" /\ OnLeaveRoom(c, req.roomId)
           \/ /\ req.kind = "control"
              /\ \E now \in RelayClock(req.timestamp) :
                    OnControl(c, req.event, req.roomId, req.timestamp,
                              req.progressMs, now)
           \/ req.kind = "disconnect" /\ OnDisconnect(c)
    /\ toRelay' = [toRelay EXCEPT ![c] = Tail(@)]
    /\ toClient' = [d \in Conns |->
                       IF Attached(d) THEN toClient[d] \o Replies(c, d) ELSE <<>>]
    /\ UNCHANGED <<roomVars, conn, connected, loading, pending, presses>>

SocketDisconnectMutant(k, queues) ==
    /\ toRelay' = queues
    /\ toClient' = IF conn[k] # 0 THEN [toClient EXCEPT ![conn[k]] = <<>>] ELSE toClient
    /\ conn' = [conn EXCEPT ![k] = 0]
    /\ connected' = [connected EXCEPT ![k] = FALSE]

\* socket.disconnect(): the DISCONNECT packet; the socket is no longer
\* connected and receives nothing more from that connection.  (Room's
\* disconnect listener ignores the reason "io client disconnect".)
SocketDisconnect(k, queues) ==
    /\ toRelay' = Emit(queues, k, Request("disconnect", "", "", Undefined, Undefined))
    /\ toClient' = IF conn[k] # 0 THEN [toClient EXCEPT ![conn[k]] = <<>>] ELSE toClient
    /\ conn' = [conn EXCEPT ![k] = 0]
    /\ connected' = [connected EXCEPT ![k] = FALSE]

\* The socket's "connect" event.
RecvConnected(k) ==
    /\ Inbox(k) # <<>>
    /\ Head(Inbox(k)).kind = "connect"
    /\ connected' = [connected EXCEPT ![k] = TRUE]
    /\ toClient' = [toClient EXCEPT ![conn[k]] = Tail(@)]
    /\ IF RoomMounted(k) THEN OnConnect(k) ELSE UNCHANGED roomVars
    /\ UNCHANGED <<relayVars, conn, loading, pending, toRelay, presses>>

\* The acknowledgement settles the promise of socketService.createRoom /
\* joinRoom; App continues: setRoomId(id) on success, handleConnectionFailure
\* otherwise, then setLoading(false).
RecvAck(k) ==
    /\ Inbox(k) # <<>>
    /\ Head(Inbox(k)).kind = "ack"
    /\ pending[k] # Null
    /\ loading' = [loading EXCEPT ![k] = FALSE]
    /\ pending' = [pending EXCEPT ![k] = Null]
    /\ UNCHANGED <<relayVars, presses>>
    /\ IF Head(Inbox(k)).ack.success
       THEN /\ Mount(k, pending[k])
            /\ toClient' = [toClient EXCEPT ![conn[k]] = Tail(@)]
            /\ UNCHANGED <<conn, connected, toRelay>>
       ELSE /\ CanEmit(k, 1)
            /\ Unmount(k)
            /\ SocketDisconnect(k, toRelay)

\* A relayed or presence event reaches the Room's listener, if a Room is
\* mounted (App itself registers none).
RecvEvent(k) ==
    /\ Inbox(k) # <<>>
    /\ Head(Inbox(k)).kind = "event"
    /\ toClient' = [toClient EXCEPT ![conn[k]] = Tail(@)]
    /\ UNCHANGED <<relayVars, conn, connected, loading, pending, toRelay, presses>>
    /\ LET ev == Head(Inbox(k)).ev
       IN  IF ~RoomMounted(k)
           THEN UNCHANGED roomVars
           ELSE \/ ev.type = "partner-joined" /\ OnPartnerJoined(k)
                \/ ev.type = "partner-left" /\ OnPartnerLeft(k)
                \/ ev.type = "sync-play" /\ \E now \in Clock : OnSyncPlay(k, ev.data, now)
                \/ ev.type = "sync-pause" /\ OnSyncPause(k, ev.data)
                \/ ev.type = "sync-seek" /\ \E now \in Clock : OnSyncSeek(k, ev.data, now)

\* App.handleLeaveRoom: leaveRoom(roomIdRef.current), disconnect(),
\* setRoomId(null).
HandleLeaveRoom(k) ==
    /\ RoomMounted(k)
    /\ CanEmit(k, 2)
    /\ Unmount(k)
    /\ SocketDisconnect(k, Emit(toRelay, k,
                              Request("leave-room", appRoomId[k], "", Undefined,
                                      Undefined)))
    /\ UNCHANGED <<relayVars, loading, pending, presses>>

\* socketService.emitPlay / emitPause(roomId, {progressMs, timestamp}).
EmitControl(k, event, progressMs, now) ==
    Emit(toRelay, k, Request("control", appRoomId[k], event, now, progressMs))

\* Room.handlePlay (press = TRUE) / handlePause (press = FALSE) up to the
\* await of the device call; without a device it runs to its end.
HandlePress(k, play, progressMs, now) ==
    /\ RoomMounted(k)
    /\ connStatus[k] = "connected"
    /\ syncPlaying[k] = ~play
    /\ presses < MaxPresses
    /\ presses' = presses + 1
    /\ UNCHANGED <<relayVars, appRoomId, connStatus, partnerOnline, latency,
                   deviceId, conn, connected, loading, pending, toClient>>
    /\ IF deviceId[k]
       THEN /\ Len(tasks[k]) < MaxTasks
            /\ device' = [device EXCEPT ![k] =
                  Command(IF play THEN "play" ELSE "pause", Undefined,
                          IF play THEN "handlePlay" ELSE "handlePause",
                          NoData, Undefined, Undefined)]
            /\ tasks' = [tasks EXCEPT ![k] =
                  Append(@, Task(IF play THEN "handlePlay" ELSE "handlePause",
                                 progressMs))]
            /\ UNCHANGED <<syncPlaying, toRelay>>
       ELSE /\ CanEmit(k, 1)
            /\ toRelay' = EmitControl(k, IF play THEN "play" ELSE "pause",
                                      progressMs, now)
            /\ syncPlaying' = [syncPlaying EXCEPT ![k] = play]
            /\ UNCHANGED <<tasks, device>>

\* The device call of handlePlay / handlePause returned: emit with the
\* progressMs of the closure and a fresh Date.now(), then setSyncPlaying.
PressReturned(k, i, now) ==
    /\ i \in 1..Len(tasks[k])
    /\ tasks[k][i].pc \in {"handlePlay", "handlePause"}
    /\ CanEmit(k, 1)
    /\ toRelay' = EmitControl(k, IF tasks[k][i].pc = "handlePlay" THEN "play" ELSE "pause",
                              tasks[k][i].progressMs, now)
    /\ syncPlaying' = [syncPlaying EXCEPT ![k] = tasks[k][i].pc = "handlePlay"]
    /\ tasks' = [tasks EXCEPT ![k] = Without(@, i)]
    /\ UNCHANGED <<relayVars, appRoomId, connStatus, partnerOnline, latency,
                   deviceId, device, conn, connected, loading,
                   pending, toClient, presses>>

\* Both clients start on the Hero page, with or without a playback device.
InitDuo ==
    /\ RelayInit
    /\ Offline
    /\ appRoomId = [k \in Clients |-> Null]
    /\ connStatus = [k \in Clients |-> "connecting"]
    /\ syncPlaying = [k \in Clients |-> FALSE]
    /\ partnerOnline = [k \in Clients |-> FALSE]
    /\ latency = [k \in Clients |-> Undefined]
    /\ deviceId \in [Clients -> BOOLEAN]
    /\ tasks = [k \in Clients |-> <<>>]
    /\ device = [k \in Clients |-> NoCommand]

CreatePressed ==
    Quiet /\ UNCHANGED <<linkVars, svcVars>> /\ \E k \in Clients : HandleCreateRoom(k)

JoinSubmitted ==
    Quiet /\ UNCHANGED <<linkVars, svcVars>> /\ \E k \in Clients : HandleJoinRoom(k)

LeavePressed ==
    Quiet /\ UNCHANGED <<linkVars, svcVars>> /\ \E k \in Clients : HandleLeaveRoom(k)

PlayPausePressed ==
    /\ Quiet
    /\ UNCHANGED <<linkVars, svcVars>>
    /\ \E k \in Clients, play \in BOOLEAN, p \in Progress, now \in Clock :
        HandlePress(k, play, p, now)

DeviceReturned ==
    /\ Quiet
    /\ UNCHANGED <<linkVars, svcVars>>
    /\ \E k \in Clients, i \in 1..MaxTasks, now \in Clock : PressReturned(k, i, now)

SeekAwaited ==
    /\ Quiet
    /\ \E k \in Clients, i \in 1..MaxTasks :
          SeekReturned(k, i) /\ UNCHANGED <<relayVars, duoVars, linkVars, svcVars>>

SettleAwaited ==
    /\ Quiet
    /\ \E k \in Clients, i \in 1..MaxTasks :
          SettleElapsed(k, i) /\ UNCHANGED <<relayVars, duoVars, linkVars, svcVars>>

RelayStep == UNCHANGED <<linkVars, svcVars>> /\ \E c \in Conns : RelayHandle(c)

ConnectedArrives ==
    Quiet /\ UNCHANGED <<linkVars, svcVars>> /\ \E k \in Clients : RecvConnected(k)

AckArrives == Quiet /\ UNCHANGED <<linkVars, svcVars>> /\ \E k \in Clients : RecvAck(k)

EventArrives == Quiet /\ UNCHANGED <<linkVars, svcVars>> /\ \E k \in Clients : RecvEvent(k)

NextDuo ==
    \/ CreatePressed
    \/ JoinSubmitted
    \/ LeavePressed
    \/ PlayPausePressed
    \/ DeviceReturned
    \/ SeekAwaited
    \/ SettleAwaited
    \/ RelayStep
    \/ ConnectedArrives
    \/ AckArrives
    \/ EventArrives

SpecDuo == InitDuo /\ [][NextDuo]_vars

\* ------------------------ SpecLink: one client over a transport that fails
\* The io(...) options of socket.js.
reconnectionAttempts == 5
reconnectionDelay == 1500
reconnectionDelayMax == 5000

\* Events a socket.io-client Socket emits by itself.  The events of its
\* Manager (reconnect_attempt, reconnect_error, reconnect_failed, reconnect)
\* are not forwarded to the Socket, where socketService.on registers the
\* Room's listeners.
SocketEvents == {"connect", "connect_error", "disconnect"}

\* socket "reconnect_attempt" listener of Room.
OnReconnectAttempt(k) ==
    /\ RoomMounted(k)
    /\ connStatus' = [connStatus EXCEPT ![k] = "reconnecting"]
    /\ UNCHANGED <<appRoomId, syncPlaying, partnerOnline, latency, deviceId, tasks, device>>

\* The listeners of Room that the Manager's reconnect_attempt reaches.
NotifyAttempt(k) ==
    IF "reconnect_attempt" \in SocketEvents /\ RoomMounted(k)
    THEN OnReconnectAttempt(k)
    ELSE UNCHANGED roomVars

RECURSIVE Pow2(_)
Pow2(n) == IF n = 0 THEN 1 ELSE 2 * Pow2(n - 1)

Min(a, b) == IF a <= b THEN a ELSE b

\* Math.random() in tenths.
RandTenths == 0..9

\* The Manager's Backoff.duration() with attempts = n, factor 2 and jitter
\* 0.5: ms = min * 2^n; deviation = floor(rand * 0.5 * ms); subtracted when
\* floor(rand * 10) is even, added otherwise; capped at max.
BackoffDuration(n, r) ==
    LET ms == reconnectionDelay * Pow2(n)
        deviation == (r * ms) \div 20
    IN  Min(IF r % 2 = 0 THEN ms - deviation ELSE ms + deviation,
            reconnectionDelayMax)

CanRetryMutant(n) == n <= reconnectionAttempts

\* backoff.attempts < reconnectionAttempts
CanRetry(n) == n < reconnectionAttempts

\* Manager.reconnect() with backoff.attempts = n: give up (reconnect_failed,
\* backoff.reset()) or set the timer of the next attempt.
Reconnect(k, n) ==
    IF ~CanRetry(n)
    THEN /\ link' = [link EXCEPT ![k] = "failed"]
         /\ attempts' = [attempts EXCEPT ![k] = 0]
         /\ UNCHANGED delay
    ELSE \E r \in RandTenths :
         /\ link' = [link EXCEPT ![k] = "retry"]
         /\ attempts' = [attempts EXCEPT ![k] = n + 1]
         /\ delay' = [delay EXCEPT ![k] = BackoffDuration(n, r)]

\* The transport closes under a connected socket: the Socket emits
\* "disconnect" with reason "transport close", the Manager starts to
\* reconnect.
TransportClose(k) ==
    /\ link[k] = "open"
    /\ connected[k]
    /\ connected' = [connected EXCEPT ![k] = FALSE]
    /\ IF RoomMounted(k)
       THEN OnDisconnected(k, "transport close")
       ELSE UNCHANGED roomVars
    /\ tries' = [tries EXCEPT ![k] = 0]
    /\ Reconnect(k, attempts[k])
    /\ UNCHANGED <<relayVars, conn, loading, pending, toRelay, toClient, presses>>

\* The reconnection timer fires (reconnect_attempt) and the transport opens:
\* backoff.reset(), the Socket connects again and emits "connect".
AttemptSucceeds(k) ==
    /\ link[k] = "retry"
    /\ tries' = [tries EXCEPT ![k] = @ + 1]
    /\ link' = [link EXCEPT ![k] = "open"]
    /\ attempts' = [attempts EXCEPT ![k] = 0]
    /\ connected' = [connected EXCEPT ![k] = TRUE]
    /\ IF RoomMounted(k) THEN OnConnect(k) ELSE UNCHANGED roomVars
    /\ UNCHANGED <<relayVars, conn, loading, pending, toRelay, toClient, presses,
                   delay>>

\* The reconnection timer fires (reconnect_attempt) and the transport does
\* not open (reconnect_error): the Manager calls reconnect() again.
AttemptFails(k) ==
    /\ link[k] = "retry"
    /\ tries' = [tries EXCEPT ![k] = @ + 1]
    /\ NotifyAttempt(k)
    /\ Reconnect(k, attempts[k])
    /\ UNCHANGED <<relayVars, conn, connected, loading, pending, toRelay, toClient,
                   presses>>

\* The user leaves the room: App.handleLeaveRoom; socket.disconnect() also
\* stops the Manager's reconnection.
LeaveOverLink(k) ==
    /\ HandleLeaveRoom(k)
    /\ link' = [link EXCEPT ![k] = "closed"]
    /\ attempts' = [attempts EXCEPT ![k] = 0]
    /\ UNCHANGED <<delay, tries>>

\* What the relay sends to a member of the room: presence events and
\* sync-play / sync-pause with the room id and a timestamp.
RelayedData ==
    [roomId : {AllNames[1]}, timestamp : Clock, progressMs : {Undefined},
     positionMs : {Undefined}]

\* Client 1 is in a room over a connected socket (the relay's side of the
\* connection is not part of this specification).
InitLink ==
    /\ RelayInit
    /\ appRoomId = [k \in Clients |-> IF k = 1 THEN AllNames[1] ELSE Null]
    /\ connStatus = [k \in Clients |-> IF k = 1 THEN "connected" ELSE "connecting"]
    /\ syncPlaying = [k \in Clients |-> FALSE]
    /\ partnerOnline = [k \in Clients |-> FALSE]
    /\ latency = [k \in Clients |-> Undefined]
    /\ deviceId \in {[k \in Clients |-> IF k = 1 THEN dv ELSE FALSE] : dv \in BOOLEAN}
    /\ tasks = [k \in Clients |-> <<>>]
    /\ device = [k \in Clients |-> NoCommand]
    /\ conn = [k \in Clients |-> 0]
    /\ connected = [k \in Clients |-> k = 1]
    /\ loading = [k \in Clients |-> FALSE]
    /\ pending = [k \in Clients |-> Null]
    /\ toRelay = [c \in Conns |-> <<>>]
    /\ toClient = [c \in Conns |-> <<>>]
    /\ presses = 0
    /\ link = [k \in Clients |-> IF k = 1 THEN "open" ELSE "closed"]
    /\ attempts = [k \in Clients |-> 0]
    /\ delay = [k \in Clients |-> Undefined]
    /\ tries = [k \in Clients |-> 0]
    /\ calls = <<>>
    /\ sendBuffer = <<>>
    /\ app = "mounted"
    /\ used = {}

\* Events reach the Room only over a connected socket.
PartnerJoinedArrives ==
    connected[1] /\ OnPartnerJoined(1) /\ UNCHANGED <<relayVars, duoVars, linkVars, svcVars>>

PartnerLeftArrives ==
    connected[1] /\ OnPartnerLeft(1) /\ UNCHANGED <<relayVars, duoVars, linkVars, svcVars>>

SyncPlayArrives ==
    /\ connected[1]
    /\ \E data \in RelayedData, now \in Clock : OnSyncPlay(1, data, now)
    /\ UNCHANGED <<relayVars, duoVars, linkVars, svcVars>>

SyncPauseArrives ==
    /\ connected[1]
    /\ \E data \in RelayedData : OnSyncPause(1, data)
    /\ UNCHANGED <<relayVars, duoVars, linkVars, svcVars>>

SeekDone ==
    /\ \E i \in 1..MaxTasks : SeekReturned(1, i)
    /\ UNCHANGED <<relayVars, duoVars, linkVars, svcVars>>

SettleDone ==
    /\ \E i \in 1..MaxTasks : SettleElapsed(1, i)
    /\ UNCHANGED <<relayVars, duoVars, linkVars, svcVars>>

TransportCloses == TransportClose(1) /\ UNCHANGED svcVars

ReconnectSucceeds == AttemptSucceeds(1) /\ UNCHANGED svcVars

ReconnectFails == AttemptFails(1) /\ UNCHANGED svcVars

UserLeaves == LeaveOverLink(1) /\ UNCHANGED svcVars

NextLink ==
    \/ PartnerJoinedArrives
    \/ PartnerLeftArrives
    \/ SyncPlayArrives
    \/ SyncPauseArrives
    \/ SeekDone
    \/ SettleDone
    \/ TransportCloses
    \/ ReconnectSucceeds
    \/ ReconnectFails
    \/ UserLeaves

SpecLink == InitLink /\ [][NextLink]_vars

\* ------------------ SpecRequest: the promises of createRoom and joinRoom
MaxCalls == 2   \* createRoom / joinRoom calls of client 1 in a run

\* The rejection of the 8000 ms timer.
NoResponse == "Server did not respond in time."

\* One call of socketService.createRoom / joinRoom: the promise it returned
\* (state, value) and its timer t; history: how often the promise changed
\* state, how often the acknowledgement callback ran and how often the
\* request was written to the transport.
Call(kind, roomId) ==
    [kind |-> kind, roomId |-> roomId, state |-> "pending", value |-> "",
     timer |-> "armed", settled |-> 0, acked |-> 0, sent |-> 0]

\* socket.emit(kind, {roomId}, callback): the packet carries the id under
\* which the socket keeps the callback.
ServicePacket(kind, roomId, id) == [kind |-> kind, roomId |-> roomId, id |-> id]

SettleMutant(call, state, value) ==
    [call EXCEPT !.state = state, !.value = value, !.settled = @ + 1]

\* resolve(v) / reject(e) of the promise: only the first call settles it.
Settle(call, state, value) ==
    IF call.state = "pending"
    THEN [call EXCEPT !.state = state, !.value = value, !.settled = @ + 1]
    ELSE call

\* res?.error || "Failed to create room." (createRoom), "Room not found."
\* (joinRoom).
ErrorOf(kind, res) ==
    IF res.error # "" THEN res.error
    ELSE IF kind = "create-room" THEN "Failed to create room." ELSE "Room not found."

\* The acknowledgement callback: clearTimeout(t), then resolve or reject.
OnAck(call, res) ==
    LET cleared == [call EXCEPT !.timer = IF @ = "armed" THEN "cleared" ELSE @,
                                !.acked = @ + 1]
    IN  IF res.called /\ res.success
        THEN Settle(cleared, "resolved", "")
        ELSE Settle(cleared, "rejected", ErrorOf(call.kind, res))

\* App.handleConnectionFailure: setRoomId(null), socketService.disconnect().
HandleConnectionFailure(k) ==
    /\ Unmount(k)
    /\ SocketDisconnect(k, toRelay)
    /\ link' = [link EXCEPT ![k] = "closed"]

\* App.handleCreateRoom / handleJoinRoom up to the await: setLoading(true),
\* socketService.connect() when not connected, then the call: the timer is
\* set and the request is emitted, into the send buffer while the socket
\* is not connected.
CallService(kind, id) ==
    /\ app = "mounted"
    /\ ~RoomMounted(1)
    /\ ~loading[1]
    /\ Len(calls) < MaxCalls
    /\ loading' = [loading EXCEPT ![1] = TRUE]
    /\ pending' = [pending EXCEPT ![1] = id]
    /\ link' = [link EXCEPT ![1] =
                   IF ~connected[1] /\ @ = "closed" THEN "opening" ELSE @]
    /\ IF connected[1]
       THEN /\ calls' = Append(calls, [Call(kind, id) EXCEPT !.sent = 1])
            /\ toRelay' = [toRelay EXCEPT ![conn[1]] =
                              Append(@, ServicePacket(kind, id, Len(calls) + 1))]
            /\ UNCHANGED sendBuffer
       ELSE /\ calls' = Append(calls, Call(kind, id))
            /\ sendBuffer' = Append(sendBuffer,
                                    ServicePacket(kind, id, Len(calls) + 1))
            /\ UNCHANGED toRelay
    /\ UNCHANGED <<relayVars, roomVars, conn, connected, toClient, attempts,
                   delay, tries, app, used>>

\* The transport opens: the relay's connection handler, then the socket is
\* connected, writes its send buffer and emits "connect".
SocketOpens ==
    /\ link[1] = "opening"
    /\ \E c \in Conns :
          /\ Fresh(c)
          /\ OnConnection(c)
          /\ conn' = [conn EXCEPT ![1] = c]
          /\ toRelay' = [toRelay EXCEPT ![c] = sendBuffer]
          /\ used' = used \cup {c}
    /\ connected' = [connected EXCEPT ![1] = TRUE]
    /\ link' = [link EXCEPT ![1] = "open"]
    /\ sendBuffer' = <<>>
    /\ calls' = [i \in 1..Len(calls) |->
                    IF \E j \in 1..Len(sendBuffer) : sendBuffer[j].id = i
                    THEN [calls[i] EXCEPT !.sent = @ + 1]
                    ELSE calls[i]]
    /\ IF RoomMounted(1) THEN OnConnect(1) ELSE UNCHANGED roomVars
    /\ UNCHANGED <<toClient, loading, pending, presses, attempts, delay, tries,
                   app>>

\* The relay takes the next packet of connection c; its callback response
\* travels back with the packet's id while the client is on c.  (The events
\* the handlers emit are followed in SpecDuo.)
RelayTakes(c) ==
    /\ sock[c] = "open"
    /\ toRelay[c] # <<>>
    /\ LET req == Head(toRelay[c])
       IN  /\ \/ req.kind = "create-room" /\ OnCreateRoom(c, req.roomId, TRUE)
              \/ req.kind = "join-room" /\ OnJoinRoom(c, req.roomId, TRUE)
              \/ req.kind = "leave-room" /\ OnLeaveRoom(c, req.roomId)
              \/ req.kind = "disconnect" /\ OnDisconnect(c)
           /\ toClient' = [d \in Conns |->
                  IF d = c /\ ack'.called /\ conn[1] = c
                  THEN Append(toClient[d], [id |-> req.id, res |-> ack'])
                  ELSE toClient[d]]
    /\ toRelay' = [toRelay EXCEPT ![c] = Tail(@)]
    /\ UNCHANGED <<roomVars, conn, connected, loading, pending, linkVars,
                   svcVars>>

\* A response reaches the socket, which runs the callback kept under the
\* packet's id.  If that settles the promise, App goes on after its await:
\* setRoomId(id) or handleConnectionFailure, then setLoading(false).
OnResponse ==
    /\ conn[1] # 0
    /\ toClient[conn[1]] # <<>>
    /\ LET c == conn[1]
           pkt == Head(toClient[c])
           old == calls[pkt.id]
           new == OnAck(old, pkt.res)
       IN  /\ calls' = [calls EXCEPT ![pkt.id] = new]
           /\ IF old.state = "pending"
              THEN /\ loading' = [loading EXCEPT ![1] = FALSE]
                   /\ pending' = [pending EXCEPT ![1] = Null]
                   /\ IF new.state = "resolved"
                      THEN /\ Mount(1, old.roomId)
                           /\ toClient' = [toClient EXCEPT ![c] = Tail(@)]
                           /\ UNCHANGED <<conn, connected, toRelay, link>>
                      ELSE HandleConnectionFailure(1)
              ELSE /\ toClient' = [toClient EXCEPT ![c] = Tail(@)]
                   /\ UNCHANGED <<roomVars, conn, connected, toRelay, link,
                                  loading, pending>>
    /\ UNCHANGED <<relayVars, presses, attempts, delay, tries, sendBuffer, app,
                   used>>

\* The timer of call i fires: reject(new Error(NoResponse)); App goes on
\* after its await with handleConnectionFailure and setLoading(false).
OnTimeout(i) ==
    /\ i \in 1..Len(calls)
    /\ calls[i].timer = "armed"
    /\ calls' = [calls EXCEPT ![i] =
                    Settle([@ EXCEPT !.timer = "fired"], "rejected", NoResponse)]
    /\ loading' = [loading EXCEPT ![1] = FALSE]
    /\ pending' = [pending EXCEPT ![1] = Null]
    /\ HandleConnectionFailure(1)
    /\ UNCHANGED <<relayVars, attempts, delay, tries, sendBuffer, app, used>>

\* Client 1 starts on the Hero page.
InitRequest == InitDuo

\* App unmounts: its effect cleanup runs leaveRoom(roomIdRef.current) when a
\* Room is shown and socketService.disconnect(); App's state and the Room
\* are gone, a call it awaits stays with its timer.
AppCleanup ==
    /\ app = "mounted"
    /\ app' = IF loading[1] THEN "left-pending" ELSE "left"
    /\ Unmount(1)
    /\ SocketDisconnect(1, IF RoomMounted(1)
                           THEN Emit(toRelay, 1,
                                     Request("leave-room", appRoomId[1], "",
                                             Undefined, Undefined))
                           ELSE toRelay)
    /\ link' = [link EXCEPT ![1] = "closed"]
    /\ loading' = [loading EXCEPT ![1] = FALSE]
    /\ pending' = [pending EXCEPT ![1] = Null]
    /\ UNCHANGED <<relayVars, presses, attempts, delay, tries, calls, sendBuffer,
                   used>>

\* generateRoomId is called anew for every press of Create Room, so a
\* second call of the same client can carry another id than the first.
NewIds == {id \in RoomIds : ToUpperCase(id) = id}

CreateCalled ==
    /\ \E newId \in NewIds : CallService("create-room", newId)
    /\ UNCHANGED presses

\* The modal hands over the upper-cased room code.
JoinCalled ==
    /\ \E typed \in RoomNames : CallService("join-room", ToUpperCase(typed))
    /\ UNCHANGED presses

\* Other users of the relay, before client 1 makes its first call.
StrangerConnects ==
    /\ calls = <<>>
    /\ \E c \in Conns : Fresh(c) /\ OnConnection(c)
    /\ UNCHANGED <<roomVars, duoVars, linkVars, svcVars>>

StrangerCreates ==
    /\ calls = <<>>
    /\ \E c \in Conns, r \in RoomNames : OnCreateRoom(c, r, TRUE)
    /\ UNCHANGED <<roomVars, duoVars, linkVars, svcVars>>

StrangerJoins ==
    /\ calls = <<>>
    /\ \E c \in Conns, r \in RoomNames : OnJoinRoom(c, r, TRUE)
    /\ UNCHANGED <<roomVars, duoVars, linkVars, svcVars>>

RelayServes ==
    /\ \E c \in Conns : RelayTakes(c)
    /\ UNCHANGED presses

TimerFires ==
    /\ \E i \in 1..MaxCalls : OnTimeout(i)
    /\ UNCHANGED presses

NextRequest ==
    \/ StrangerConnects
    \/ StrangerCreates
    \/ StrangerJoins
    \/ CreateCalled
    \/ JoinCalled
    \/ SocketOpens
    \/ RelayServes
    \/ OnResponse
    \/ TimerFires
    \/ UserLeaves
    \/ AppCleanup

SpecRequest == InitRequest /\ [][NextRequest]_vars

\* A timer that has been set fires unless it is cleared.
SpecRequestFair == SpecRequest /\ WF_vars(TimerFires)

\* In addition the relay handles every packet it has received, the client
\* handles every response it has received, and a transport that is being
\* opened opens (the relay is reachable).
SpecRequestLive ==
    /\ SpecRequestFair
    /\ WF_vars(RelayServes)
    /\ WF_vars(OnResponse)
    /\ WF_vars(SocketOpens)

\* --------------- SpecResume: two clients in a room, the transport fails
\* The transport of client 1 closes (as in SpecLink, it is client 1 whose
\* transport fails): the Socket emits "disconnect" (reason "transport
\* close") and the Manager starts to reconnect; the relay will run its
\* disconnect handler for the connection, and what was in flight to the
\* client is lost.
TransportFails ==
    LET k == 1
    IN  /\ Quiet
        /\ link[k] = "open"
        /\ connected[k]
        /\ conn[k] # 0
        /\ connected' = [connected EXCEPT ![k] = FALSE]
        /\ IF RoomMounted(k)
           THEN OnDisconnected(k, "transport close")
           ELSE UNCHANGED roomVars
        /\ tries' = [tries EXCEPT ![k] = 0]
        /\ Reconnect(k, attempts[k])
        /\ toRelay' = [toRelay EXCEPT ![conn[k]] =
                          Append(@, Request("disconnect", "", "", Undefined, Undefined))]
        /\ toClient' = [toClient EXCEPT ![conn[k]] = <<>>]
        /\ conn' = [conn EXCEPT ![k] = 0]
        /\ UNCHANGED <<relayVars, loading, pending, presses, svcVars>>

\* The reconnection timer fires and the transport opens: the relay's
\* connection handler runs for a new socket, backoff.reset(), the Socket
\* emits "connect".  Neither socket.js nor Room emits anything on connect.
SocketResumes ==
    LET k == 1
    IN  /\ Quiet
        /\ link[k] = "retry"
        /\ \E c \in Conns :
              /\ Fresh(c)
              /\ OnConnection(c)
              /\ conn' = [conn EXCEPT ![k] = c]
        /\ tries' = [tries EXCEPT ![k] = @ + 1]
        /\ link' = [link EXCEPT ![k] = "open"]
        /\ attempts' = [attempts EXCEPT ![k] = 0]
        /\ connected' = [connected EXCEPT ![k] = TRUE]
        /\ IF RoomMounted(k) THEN OnConnect(k) ELSE UNCHANGED roomVars
        /\ UNCHANGED <<loading, pending, toRelay, toClient, presses, delay,
                       svcVars>>

\* Client 1 has created room AB23CD, client 2 has joined it, and every
\* packet of that has been processed; neither has a playback device.
InitResume ==
    /\ sock = [c \in Conns |-> IF c \in {1, 2} THEN "open" ELSE "none"]
    /\ rooms = [r \in RoomIds |-> IF r = AllNames[1] THEN {1, 2} ELSE {}]
    /\ currentRoom = [c \in Conns |-> IF c \in {1, 2} THEN AllNames[1] ELSE Null]
    /\ out = [d \in Conns |->
                IF d = 1 THEN <<Event("partner-joined", NoData, 2, Undefined)>>
                ELSE <<>>]
    /\ ack = Ok(AllNames[1])
    /\ lastOp = Op("join-room", 2, AllNames[1], "", TRUE)
    /\ appRoomId = [k \in Clients |-> AllNames[1]]
    /\ connStatus = [k \in Clients |-> "connected"]
    /\ syncPlaying = [k \in Clients |-> FALSE]
    /\ partnerOnline = [k \in Clients |-> k = 1]
    /\ latency = [k \in Clients |-> Undefined]
    /\ deviceId = [k \in Clients |-> FALSE]
    /\ tasks = [k \in Clients |-> <<>>]
    /\ device = [k \in Clients |-> NoCommand]
    /\ conn = [k \in Clients |-> k]
    /\ connected = [k \in Clients |-> TRUE]
    /\ loading = [k \in Clients |-> FALSE]
    /\ pending = [k \in Clients |-> Null]
    /\ toRelay = [c \in Conns |-> <<>>]
    /\ toClient = [c \in Conns |-> <<>>]
    /\ presses = 0
    /\ link = [k \in Clients |-> "open"]
    /\ attempts = [k \in Clients |-> 0]
    /\ delay = [k \in Clients |-> Undefined]
    /\ tries = [k \in Clients |-> 0]
    /\ calls = <<>>
    /\ sendBuffer = <<>>
    /\ app = "mounted"
    /\ used = {}

NextResume ==
    \/ TransportFails
    \/ SocketResumes
    \/ ReconnectFails
    \/ PlayPausePressed
    \/ RelayStep
    \/ EventArrives

SpecResume == InitResume /\ [][NextResume]_vars

\* ----------------------------------------------------- compensator claims
\* The seek commands of the sync-play and sync-seek listeners.
CompensatedSeek(k) ==
    device[k].cmd = "seek" /\ device[k].via \in {"sync-play", "sync-seek"}

\* C5: a sync-play (sync-seek) carrying timestamp T and progressMs
\* (positionMs) P that is processed at local time R >= T is sought to exactly
\* P + (R - T).
C5_DriftCompensated ==
    \A k \in Clients :
        (/\ CompensatedSeek(k)
         /\ device[k].timestamp # Undefined
         /\ device[k].position # Undefined
         /\ device[k].at >= device[k].timestamp)
        => device[k].ms = device[k].position + (device[k].at - device[k].timestamp)

\* A sync-play with a position above 0 was processed later than its timestamp.
C5_Witness ==
    /\ device[1].cmd = "seek"
    /\ device[1].via = "sync-play"
    /\ device[1].timestamp # Undefined
    /\ device[1].position > 0
    /\ device[1].at > device[1].timestamp
    /\ device[1].ms = device[1].position + 1

\* C6: a sync-play or sync-seek whose timestamp T is later than the receipt
\* time R is sought to exactly its progressMs/positionMs (lag 0).
C6_NegativeLagClamped ==
    \A k \in Clients :
        (/\ CompensatedSeek(k)
         /\ device[k].timestamp # Undefined
         /\ device[k].position # Undefined
         /\ device[k].at < device[k].timestamp)
        => device[k].ms = device[k].position

\* C7: a sync-play processed a second time, with the same timestamp,
\* progressMs and receipt time, is sought to the same targetMs as the first
\* time, whatever the Room processed before.
C7_SameEventSameTarget ==
    \A k \in Clients :
        (/\ device[k].cmd = "seek"
         /\ device[k].via = "sync-play"
         /\ device[k].again # Undefined)
        => device[k].ms = device[k].again

\* The same sync-play was processed twice in a row, with a lag above 0, after
\* the first processing had stored a latency sample.
C7_Witness ==
    /\ device[1].cmd = "seek"
    /\ device[1].via = "sync-play"
    /\ device[1].again # Undefined
    /\ device[1].timestamp # Undefined
    /\ device[1].at > device[1].timestamp
    /\ latency[1] = device[1].at - device[1].timestamp

\* ------------------------------------------------------------ relay claims
SyncTypes == {"sync-play", "sync-pause"}

\* The events of the given types among those the latest handler call sent to d.
Received(d, types) == {i \in 1..Len(out[d]) : out[d][i].type \in types}

\* C1: in every reachable state of the relay every room has at most 2
\* members, whatever the interleaving of create-room, join-room, leave-room
\* and disconnect requests.
C1_RoomCapacity == \A r \in RoomIds : Cardinality(rooms[r]) <= 2

\* A join-room for a room that already has two members was turned away.
C1_Witness ==
    /\ lastOp.op = "join-room"
    /\ ack = Fail("Room is full.")
    /\ lastOp.roomId \in RoomIds
    /\ Cardinality(rooms[lastOp.roomId]) = 2
    /\ lastOp.conn \notin rooms[lastOp.roomId]

\* C2: a control event (play or pause) naming room r, sent by a connection
\* that is not a member of r when the relay handles it, makes the relay send
\* nothing to anyone, members of r included, and answer nothing to the sender.
C2_NonMemberControlDropped ==
    [][(/\ lastOp'.op = "control"
        /\ lastOp'.conn \notin Members(lastOp'.roomId))
       => (/\ \A d \in Conns : out'[d] = <<>>
           /\ ~ack'.called)]_vars

\* A play/pause for an occupied room from an open connection outside it.
C2_Witness ==
    /\ lastOp.op = "control"
    /\ lastOp.event \in KnownEvents
    /\ lastOp.roomId \in RoomIds
    /\ rooms[lastOp.roomId] # {}
    /\ lastOp.conn \notin rooms[lastOp.roomId]
    /\ sock[lastOp.conn] = "open"

\* C3: the sync-play/sync-pause produced by a member's control event goes to
\* the other members of the room only, never to the sending connection.
C3_NoEchoToSender ==
    lastOp.op = "control" =>
        \A d \in Conns :
            Received(d, SyncTypes) # {} =>
                d \in Members(lastOp.roomId) \ {lastOp.conn}

\* C8: when a member of a room with exactly two members disconnects, the
\* remaining member is sent exactly one partner-left.
C8_OnePartnerLeftOnDisconnect ==
    [][\A r \in RoomIds, c, d \in Conns :
         (/\ lastOp'.op = "disconnect"
          /\ lastOp'.conn = c
          /\ c # d
          /\ rooms[r] = {c, d})
         => (/\ Len(out'[d]) = 1
             /\ out'[d][1].type = "partner-left")]_vars

\* C9: create-room(r) with an acknowledgement callback, for a room id r: if
\* r has a member it answers the failure "Room ID already in use." and no
\* room's membership changes; if r has none it answers success and the
\* caller becomes the single member of r.
C9_CreateRoom ==
    [][(/\ lastOp'.op = "create-room"
        /\ lastOp'.cb
        /\ lastOp'.roomId \in RoomIds)
       => IF rooms[lastOp'.roomId] # {}
          THEN /\ ack' = Fail("Room ID already in use.")
               /\ rooms' = rooms
          ELSE /\ ack' = Ok(lastOp'.roomId)
               /\ rooms' = [rooms EXCEPT ![lastOp'.roomId] = {lastOp'.conn}]]_vars

\* A create-room for an occupied room was refused.
C9_Witness ==
    /\ lastOp.op = "create-room"
    /\ lastOp.roomId \in RoomIds
    /\ ack = Fail("Room ID already in use.")
    /\ rooms[lastOp.roomId] # {}
    /\ lastOp.conn \notin rooms[lastOp.roomId]

\* C10: join-room(r) with an acknowledgement callback, for a room id r:
\* "Room not found." when r has no member and "Room is full." when it has
\* two, both without any membership change or partner-joined; it succeeds
\* exactly when r has one member.
C10_JoinRoom ==
    [][(/\ lastOp'.op = "join-room"
        /\ lastOp'.cb
        /\ lastOp'.roomId \in RoomIds)
       => LET size == Cardinality(rooms[lastOp'.roomId])
          IN  /\ size = 0 =>
                    /\ ack' = Fail("Room not found.")
                    /\ rooms' = rooms
                    /\ \A d \in Conns : out'[d] = <<>>
              /\ size = 2 =>
                    /\ ack' = Fail("Room is full.")
                    /\ rooms' = rooms
                    /\ \A d \in Conns : out'[d] = <<>>
              /\ ack'.success <=> size = 1]_vars

\* A join-room for a room nobody is in was answered "Room not found.".
C10_Witness ==
    /\ lastOp.op = "join-room"
    /\ lastOp.roomId \in RoomIds
    /\ ack = Fail("Room not found.")
    /\ rooms[lastOp.roomId] = {}


\* ---------------------------------------------------------- end-to-end claim
\* Client k takes a relayed sync-play of its partner from its inbox and
\* issues the seek of the listener to its playback device.
SeeksOnPartnersPlay(k) ==
    /\ Inbox(k) # <<>>
    /\ Head(Inbox(k)).kind = "event"
    /\ Head(Inbox(k)).ev.type = "sync-play"
    /\ Head(Inbox(k)).ev.from # conn[k]
    /\ toClient'[conn[k]] = Tail(Inbox(k))
    /\ tasks'[k] = Append(tasks[k], Task("seek", Undefined))
    /\ device'[k].cmd = "seek"
    /\ device'[k].via = "sync-play"

\* C4: in a room with members A and B, when A presses play at position P
\* with timestamp T and B processes the relayed sync-play at its local time
\* T + d with d >= 0, the seek target B issues to its playback device is
\* P + d (the play that follows the seek is the listener's next command).
C4_EndToEndSeekTarget ==
    [][\A k \in Clients :
         LET ev == Head(Inbox(k)).ev
             d  == device'[k].at - ev.data.timestamp
         IN  (SeeksOnPartnersPlay(k) /\ Truthy(ev.data.timestamp) /\ d >= 0)
                 => device'[k].ms = ev.sent + d]_vars


\* ------------------------------------------------- relay claims, continued
\* C11: in every reachable state each connection is a member of at most one
\* room: a successful create-room or join-room by a connection that is in
\* another room takes it out of that room.
C11_OneRoomPerConnection ==
    \A c \in Conns : Cardinality(SocketRooms(c)) <= 1

\* C12: leave-room(r) from a connection that is not a member of r changes no
\* room's membership and sends no event to any connection.
C12_LeaveByNonMemberIsNoOp ==
    [][(/\ lastOp'.op = "leave-room"
        /\ lastOp'.conn \notin Members(lastOp'.roomId))
       => (/\ rooms' = rooms
           /\ \A d \in Conns : out'[d] = <<>>)]_vars

\* C13: room ids are case-insensitive: a join-room whose room id differs
\* only in case from the id of a room with one member (another connection)
\* succeeds, puts the caller in that member's room and sends that member a
\* partner-joined.
C13_CaseInsensitiveJoin ==
    [][\A r \in RoomIds, a \in Conns :
         (/\ lastOp'.op = "join-room"
          /\ lastOp'.cb
          /\ lastOp'.roomId \in RoomIds
          /\ ToUpperCase(lastOp'.roomId) = ToUpperCase(r)
          /\ rooms[r] = {a}
          /\ a # lastOp'.conn
          /\ \A q \in RoomIds \ {r} : rooms[q] = {})
         => (/\ ack'.success
             /\ rooms'[r] = {a, lastOp'.conn}
             /\ Received(a, {"partner-joined"})' # {})]_vars


\* The event that relays a control event of the given kind.
SyncName(kind) ==
    CASE kind = "play" -> "sync-play"
      [] kind = "pause" -> "sync-pause"
      [] kind = "seek" -> "sync-seek"
      [] OTHER -> "sync-track"

\* C14: every control event of a known kind (play, pause, seek, track
\* change) from a member of a two-member room is relayed to the other
\* member: a play as sync-play, a pause as sync-pause, a seek as sync-seek.
C14_EveryKindRelayed ==
    [][\A c, d \in Conns, r \in RoomIds :
         (/\ lastOp'.op = "control"
          /\ lastOp'.conn = c
          /\ lastOp'.roomId = r
          /\ lastOp'.event # ""
          /\ c # d
          /\ rooms[r] = {c, d})
         => \E i \in 1..Len(out'[d]) :
                out'[d][i].type = SyncName(lastOp'.event)]_vars


\* The relay takes a control request off the queue of connection c.
TakesControl(c) ==
    /\ toRelay[c] # <<>>
    /\ Head(toRelay[c]).kind = "control"
    /\ toRelay'[c] = Tail(toRelay[c])
    /\ lastOp'.op = "control"
    /\ lastOp'.conn = c

\* C15: the relay forwards a control event verbatim: the sync-play sent to
\* the other member carries the timestamp and the progressMs that the sender
\* put in its control event.
C15_ForwardedVerbatim ==
    [][\A c \in Conns :
         TakesControl(c) =>
            \A d \in Conns \ {c} :
                \A i \in 1..Len(out'[d]) :
                    out'[d][i].type = "sync-play" =>
                        /\ out'[d][i].data.timestamp = Head(toRelay[c]).timestamp
                        /\ out'[d][i].data.progressMs = Head(toRelay[c]).progressMs]_vars


\* ------------------------------------------------- connection state claims
\* C16: from status connected, a transport-level disconnect that the local
\* user did not initiate moves the status to reconnecting, not directly to
\* disconnected (and a later resume moves it back to connected).
C16_ConnectedToReconnecting ==
    [][\A k \in Clients :
         (/\ RoomMounted(k)
          /\ connStatus[k] = "connected"
          /\ connected[k]
          /\ ~connected'[k]
          /\ link'[k] # "closed")
         => connStatus'[k] = "reconnecting"]_vars

\* C17: in every reachable client state with connStatus reconnecting or
\* disconnected, partnerOnline and syncPlaying are false.
C17_ClearedWhenOffline ==
    \A k \in Clients :
        (RoomMounted(k) /\ connStatus[k] \in {"reconnecting", "disconnected"})
        => (~partnerOnline[k] /\ ~syncPlaying[k])

\* C18: reconnection is attempted at most reconnectionAttempts (5) times,
\* each after a delay of at most reconnectionDelayMax; once all attempts
\* have failed the connection status is disconnected, and no further attempt
\* is made unless the user acts.
C18_BoundedReconnection ==
    [][\A k \in Clients :
         /\ tries'[k] <= reconnectionAttempts
         /\ link'[k] = "retry" => delay'[k] <= reconnectionDelayMax
         /\ link'[k] = "failed" =>
               /\ tries'[k] = reconnectionAttempts
               /\ RoomMounted(k)' => connStatus'[k] = "disconnected"
         /\ link[k] = "failed" =>
               /\ link'[k] \in {"failed", "closed"}
               /\ tries'[k] = tries[k]
               /\ link'[k] = "closed" => ~RoomMounted(k)']_vars

\* All five attempts failed, the last one after the longest delay, and the
\* Room shows disconnected.
C18_Witness ==
    /\ link[1] = "failed"
    /\ tries[1] = reconnectionAttempts
    /\ delay[1] = reconnectionDelayMax
    /\ RoomMounted(1)
    /\ connStatus[1] = "disconnected"


\* ------------------------------------------------------- request claims
\* The response the socket of client 1 hands to a callback in this step.
ResponseTaken == Head(toClient[conn[1]]).res

\* C19: every createRoom / joinRoom call settles exactly once: its promise
\* changes state once and for good; it resolves on a success response and
\* rejects with the response's error on a failure response; the timer
\* rejects it only when no response has arrived; a response that arrives
\* after the timeout leaves state and value as they are; the request is
\* written to the transport at most once; and every call does settle.
C19_SettlesExactlyOnce ==
    /\ [][\A i \in 1..Len(calls) :
            LET a == calls[i]
                b == calls'[i]
            IN  /\ b.settled <= 1
                /\ (b.state # "pending") <=> (b.settled = 1)
                /\ b.sent <= 1
                /\ a.sent = 1 => b.sent = 1
                /\ a.state # "pending" => (b.state = a.state /\ b.value = a.value)
                /\ (b.acked = a.acked + 1 /\ a.state = "pending") =>
                      IF ResponseTaken.success
                      THEN b.state = "resolved"
                      ELSE b.state = "rejected" /\ b.value = ResponseTaken.error
                /\ (a.timer = "armed" /\ b.timer = "fired") =>
                      (a.acked = 0 /\ b.state = "rejected" /\ b.value = NoResponse)
                /\ a.acked > 0 => b.timer = a.timer]_vars
    /\ \A i \in 1..MaxCalls :
          (Len(calls) >= i) ~> (Len(calls) >= i /\ calls[i].state # "pending")

\* The first call was rejected by its timer and its response arrived later;
\* the second call was resolved by its response.
C19_Witness ==
    /\ Len(calls) = 2
    /\ calls[1].state = "rejected" /\ calls[1].value = NoResponse
    /\ calls[1].timer = "fired" /\ calls[1].acked = 1 /\ calls[1].sent = 1
    /\ calls[2].state = "resolved" /\ calls[2].timer = "cleared"


\* ---------------------------------------------------------- presence claims
\* The partner-joined events the handler call of this step sends to d.
JoinedDelivered(d) == {i \in 1..Len(out'[d]) : out'[d][i].type = "partner-joined"}

\* C20: every successful join-room(r) delivers exactly one partner-joined to
\* the member already in r and none to the joining connection, and a
\* partner-joined is delivered only to a member of a room whose membership
\* changes in that step.
C20_JoinNotifiesMember ==
    [][/\ (lastOp'.op = "join-room" /\ ack'.success) =>
             /\ rooms[lastOp'.roomId] # {}
             /\ \A d \in rooms[lastOp'.roomId] : Cardinality(JoinedDelivered(d)) = 1
             /\ JoinedDelivered(lastOp'.conn) = {}
       /\ \A d \in Conns :
             JoinedDelivered(d) # {} =>
                \E r \in RoomIds : d \in rooms'[r] /\ rooms'[r] # rooms[r]]_vars


\* ------------------------------------------------------- sequencing claims
\* The listener calls among ts that wait at pc.
Waiting(ts, pc) == Cardinality({i \in 1..Len(ts) : ts[i].pc = pc})

\* C21: for each sync-play a client applies to its device the seek is
\* issued as the listener starts, the settle interval starts only when that
\* seek has returned, and the play is issued only when the settle interval
\* of that call has elapsed; no step issues the seek and the play together.
C21_SeekSettleThenPlay ==
    [][\A k \in Clients :
         /\ Waiting(tasks'[k], "seek") > Waiting(tasks[k], "seek") =>
               /\ device'[k].cmd = "seek" /\ device'[k].via = "sync-play"
               /\ Len(tasks'[k]) = Len(tasks[k]) + 1
         /\ Waiting(tasks'[k], "settle") > Waiting(tasks[k], "settle") =>
               /\ Waiting(tasks'[k], "seek") = Waiting(tasks[k], "seek") - 1
               /\ Len(tasks'[k]) = Len(tasks[k])
               /\ device'[k] = device[k]
         /\ (Len(tasks'[k]) < Len(tasks[k])
               \/ (device'[k] # device[k] /\ device'[k].cmd = "play")) =>
               /\ device'[k].cmd = "play" /\ device'[k].via = "sync-play"
               /\ Waiting(tasks'[k], "settle") = Waiting(tasks[k], "settle") - 1
               /\ Waiting(tasks'[k], "seek") = Waiting(tasks[k], "seek")
               /\ Len(tasks'[k]) = Len(tasks[k]) - 1]_vars

\* A sync-play has been applied to the end: its play is the latest command
\* and no listener call is waiting.
C21_Witness ==
    /\ device[1].cmd = "play" /\ device[1].via = "sync-play"
    /\ tasks[1] = <<>>
    /\ syncPlaying[1]


\* C22: every seek target a client issues to its device for a sync-play or
\* a sync-seek is >= 0, whatever the event's timestamp and position (missing
\* ones included) and the listener's clock reading.
C22_SeekTargetNotNegative ==
    \A k \in Clients : CompensatedSeek(k) => device[k].ms >= 0

\* A seek for an event without position whose timestamp is ahead of the
\* listener's clock: the sum is negative and the target is 0.
C22_Witness ==
    /\ CompensatedSeek(1)
    /\ device[1].position = Undefined
    /\ Truthy(device[1].timestamp)
    /\ device[1].timestamp > device[1].at
    /\ device[1].ms = 0


\* ---------------------------------------------------------- registry claims
\* C23: rooms are isolated: a handler call for connection c changes the
\* membership only of rooms c is in or names in a successful create-room /
\* join-room, and sends events only to connections that are in a room
\* together with c before or after the call.
C23_RoomsIsolated ==
    [][LET c == lastOp'.conn
       IN  /\ \A r \in RoomIds :
                 rooms'[r] # rooms[r] =>
                    \/ c \in rooms[r]
                    \/ /\ lastOp'.op \in {"create-room", "join-room"}
                       /\ lastOp'.roomId = r
                       /\ ack'.success
           /\ \A d \in Conns :
                 out'[d] # <<>> =>
                    \E r \in RoomIds :
                       \/ c \in rooms[r] /\ d \in rooms[r]
                       \/ c \in rooms'[r] /\ d \in rooms'[r]]_vars

\* C24: a room exists exactly while it has a member: the leave-room or the
\* disconnect of its last member empties it; join-room of a room without
\* members fails with "Room not found." and create-room of it succeeds,
\* however often the room was created and left before; while the room has
\* a member create-room fails and join-room does not report it missing.
C24_RoomExistsWhileMember ==
    [][LET c == lastOp'.conn
           r == lastOp'.roomId
           called(op) == lastOp'.op = op /\ r \in RoomIds /\ lastOp'.cb
       IN  /\ (called("join-room") /\ rooms[r] = {}) =>
                 (ack' = Fail("Room not found.") /\ rooms' = rooms)
           /\ (called("create-room") /\ rooms[r] = {}) =>
                 (ack'.success /\ rooms'[r] = {c})
           /\ (called("create-room") /\ rooms[r] # {}) =>
                 (~ack'.success /\ rooms' = rooms)
           /\ (called("join-room") /\ rooms[r] # {}) =>
                 ack'.error # "Room not found."
           /\ (lastOp'.op = "leave-room" /\ r \in RoomIds /\ rooms[r] = {c}) =>
                 rooms'[r] = {}
           /\ lastOp'.op = "disconnect" =>
                 \A q \in RoomIds : c \notin rooms'[q]]_vars

\* A room was created by connection 2 after connection 1 has gone.
C24_Witness ==
    /\ lastOp.op = "create-room" /\ lastOp.conn = 2 /\ ack.success
    /\ lastOp.roomId \in RoomIds
    /\ sock[1] = "closed"
    /\ \A r \in RoomIds : rooms[r] = IF r = lastOp.roomId THEN {2} ELSE {}


\* Nothing is in flight between client 1 and the relay.
NothingInFlight == \A c \in Conns : toRelay[c] = <<>> /\ toClient[c] = <<>>

\* C25: leaving is safe at any time: when App goes away while a createRoom /
\* joinRoom call is awaited, that call still settles; from the leave on the
\* client shows no room and has no connection, and once nothing is in
\* flight no connection its socket has had is a member of a room.
C25_LeaveWhilePending ==
    /\ [](app # "mounted" =>
            /\ ~RoomMounted(1)
            /\ conn[1] = 0 /\ ~connected[1]
            /\ NothingInFlight =>
                  \A c \in used : sock[c] = "closed" /\ SocketRooms(c) = {})
    /\ \A i \in 1..MaxCalls :
          (app = "left-pending" /\ Len(calls) >= i) ~>
             (Len(calls) >= i /\ calls[i].state # "pending")

\* App went away while its call was awaited: the request had been written
\* to a connection, the timer settled the call, and nothing is in flight.
C25_Witness ==
    /\ app = "left-pending"
    /\ NothingInFlight
    /\ Len(calls) = 1
    /\ calls[1].sent = 1 /\ calls[1].acked = 0
    /\ calls[1].state = "rejected" /\ calls[1].value = NoResponse
    /\ used # {}


\* C26: the last relayed event wins on the device: once a sync-pause has
\* paused the device and syncPlaying is false, the listener call of a
\* sync-play received before it does not issue its play.
C26_LastRelayedEventWins ==
    [][\A k \in Clients :
          (/\ device[k].cmd = "pause" /\ device[k].via = "sync-pause"
           /\ ~syncPlaying[k]) =>
             ~(device'[k].cmd = "play" /\ device'[k].via = "sync-play")]_vars


\* ---------------------------------------------------------- two-client claims
\* Both clients show room r, their connections are its two members, and
\* every packet sent has been processed.
PairedIn(r) ==
    /\ conn[1] # 0 /\ conn[2] # 0
    /\ rooms[r] = {conn[1], conn[2]}
    /\ appRoomId[1] = r /\ appRoomId[2] = r
    /\ NothingInFlight

\* C27: partner presence is symmetric: whenever a room has two members and
\* every message of the relay has been processed, both clients have
\* partnerOnline = true.
C27_PresenceSymmetric ==
    \A r \in RoomIds : PairedIn(r) => (partnerOnline[1] /\ partnerOnline[2])


\* C28: whenever a client shows a room with connStatus = connected, its
\* current connection is a member of that room at the relay (so that its
\* play / pause presses are relayed), also after the transport was lost and
\* the socket has reconnected by itself.
C28_ConnectedMeansMember ==
    \A k \in Clients :
       (RoomMounted(k) /\ connStatus[k] = "connected") =>
          (conn[k] # 0 /\ conn[k] \in Members(appRoomId[k]))

\* C29: whenever a room has two connected members, no relayed event is in
\* flight and no listener call is suspended, both clients have the same
\* syncPlaying value.
C29_PlayStateConverges ==
    \A r \in RoomIds :
        (/\ PairedIn(r)
         /\ \A k \in Clients : connected[k] /\ tasks[k] = <<>>)
        => syncPlaying[1] = syncPlaying[2]

\* Call i has been rejected at the client, no other call names its room,
\* and connection c of the client is a member of that room at the relay.
GhostMember(i, c) ==
    /\ Len(calls) >= i
    /\ calls[i].state = "rejected"
    /\ \A j \in 1..Len(calls) : j # i => calls[j].roomId # calls[i].roomId
    /\ c \in used
    /\ c \in rooms[calls[i].roomId]

\* C30: when a createRoom / joinRoom call has failed at the client and the
\* relay has added the client's connection to the room of that call, the
\* connection eventually stops being a member of the room.
C30_NoGhostMember ==
    \A i \in 1..MaxCalls : \A c \in Conns :
        GhostMember(i, c) ~> ~GhostMember(i, c)

====
